---- MODULE Spec2Model ----
(***************************************************************************)
(* Model of generator.py: the structure materializer                       *)
(* (ProjectGenerator.create_structure), the Tk editor (ProjectDesigner)    *)
(* and the command-line dispatch (main).                                   *)
(*                                                                         *)
(* A path is a sequence of names relative to the current directory; <<>>   *)
(* is the current directory itself.  The filesystem fs is a function from  *)
(* the paths that exist to their entries.  A JSON value is a record tagged *)
(* by kind; a JSON object keeps its members as a sequence of <<key,        *)
(* value>> pairs in insertion order, as a Python dict does.  A key is the  *)
(* sequence of the path components it spells: <<"a">> is the key "a" and   *)
(* <<"c", "d">> is the key "c/d".                                          *)
(***************************************************************************)
EXTENDS Integers, Sequences, FiniteSets, TLC

\* Bounds of the explored inputs.
MaxNodes == 2      \* nodes of a JSON document read from disk
MaxPre == 1        \* entries that exist on disk before the program starts

Names == {"a", "b"}

\* The keys of a JSON object, as the components Path's / operator splits
\* them into: the plain names, and at the root also "c/d"
PlainNames == {<<n>> : n \in Names}
Keys == PlainNames \cup {<<"c", "d">>}

----------------------------------------------------------------------------
\* JSON values

Null == [kind |-> "null"]
Str(s) == [kind |-> "str", val |-> s]
Num(n) == [kind |-> "num", num |-> n]
Dict(items) == [kind |-> "dict", items |-> items]

\* no key of v spells more than one path component
RECURSIVE PlainKeys(_)
PlainKeys(v) ==
    v.kind = "dict" =>
        \A i \in 1..Len(v.items) : Len(v.items[i][1]) = 1 /\ PlainKeys(v.items[i][2])

\* isinstance(content, dict)
IsDict(v) == v.kind = "dict"

\* `not content` in place of `content is None`: the empty string counts too
IsFalsy(v) == v.kind = "null" \/ (v.kind = "str" /\ v.val = "")

\* content is None
IsNone(v) == v.kind = "null"

\* str(subcontent): a string is itself, a number is its decimal text
PyStr(v) == IF v.kind = "str" THEN v.val ELSE ToString(v.num)

Leaves == {Null, Str("hi"), Num(7)}

RECURSIVE Size(_), SizeAll(_)
Size(v) == IF IsDict(v) THEN 1 + SizeAll(v.items) ELSE 1
SizeAll(items) == IF items = <<>> THEN 0 ELSE Size(Head(items)[2]) + SizeAll(Tail(items))

\* The JSON values of at most n nodes, and the member lists of at most n
\* nodes in all, with keys drawn from avail without repetition.
RECURSIVE Values(_), ItemSeqs(_, _)
Values(n) == IF n < 1 THEN {} ELSE Leaves \cup {Dict(it) : it \in ItemSeqs(n - 1, PlainNames)}
ItemSeqs(n, avail) ==
    {<<>>} \cup UNION {UNION {{<<<<k, v>>>> \o rest : rest \in ItemSeqs(n - Size(v), avail \ {k})}
                              : v \in Values(n)} : k \in avail}

\* The documents a JSON file can hold: objects, and the bare roots null,
\* string and number.
Documents == {Dict(it) : it \in ItemSeqs(MaxNodes, Keys)} \cup {Null, Str("b"), Num(7)}

----------------------------------------------------------------------------
\* The sample structure of the editor

SampleStructure ==
    Dict(<< <<<<"book_recommender">>, Dict(<<
        <<<<"app">>, Dict(<<
            <<<<"__init__.py">>, Str("")>>,
            <<<<"main.py">>, Str("# FastAPI app setup\nfrom fastapi import FastAPI\nfrom .routes import router\n\napp = FastAPI()\napp.include_router(router)\n\n@app.get('/')\ndef read_root():\n    return {'message': 'Welcome to Book Recommender API'}")>>,
            <<<<"routes.py">>, Str("# API endpoints\nfrom fastapi import APIRouter\nfrom .schemas import BookQuery\nfrom .services.recommendation_service import recommend_books\n\nrouter = APIRouter()\n\n@router.post('/recommend')\ndef get_recommendations(query: BookQuery):\n    return recommend_books(query)")>>,
            <<<<"schemas.py">>, Str("# Pydantic models\nfrom pydantic import BaseModel\n\nclass BookQuery(BaseModel):\n    genre: str\n    author: str = None\n    min_rating: float = 0.0")>>,
            <<<<"services">>, Dict(<<
                <<<<"__init__.py">>, Str("")>>,
                <<<<"book_service.py">>, Str("# Logic related to books")>>,
                <<<<"recommendation_service.py">>, Str("# Recommendation logic\ndef recommend_books(query):\n    # Dummy logic\n    return {'recommendations': ['Book A', 'Book B']}")>> >>)>>,
            <<<<"data">>, Dict(<<
                <<<<"__init__.py">>, Str("")>>,
                <<<<"data_loader.py">>, Str("# Functions for loading book data")>>,
                <<<<"books.csv">>, Str("book_id,title,author,genre,rating\n1,1984,George Orwell,Dystopian,4.6\n2,Dune,Frank Herbert,Science Fiction,4.5")>> >>)>> >>)>>,
        <<<<"requirements.txt">>, Str("fastapi\nuvicorn\npydantic\npandas")>>,
        <<<<"README.md">>, Str("# Book Recommender\n\nA FastAPI-based book recommendation system.")>> >>)>> >>)

----------------------------------------------------------------------------
\* The filesystem

DirEntry == [kind |-> "dir", content |-> ""]
FileEntry(s) == [kind |-> "file", content |-> s]

Exists(f, p) == p \in DOMAIN f
IsDir(f, p) == p \in DOMAIN f /\ f[p].kind = "dir"
IsFile(f, p) == p \in DOMAIN f /\ f[p].kind = "file"
Parent(p) == SubSeq(p, 1, Len(p) - 1)
IsPrefix(p, q) == Len(p) <= Len(q) /\ SubSeq(q, 1, Len(p)) = p

Put(f, p, e) == [q \in DOMAIN f \cup {p} |-> IF q = p THEN e ELSE f[q]]

\* A new entry can be made at p: p's parent is a directory.
CanCreate(f, p) == p # <<>> /\ IsDir(f, Parent(p))

\* path.mkdir(): an entry that exists is an error, as is a missing parent
MkdirPlain(f, p) ==
    IF ~Exists(f, p) /\ CanCreate(f, p) THEN [ok |-> TRUE, fs |-> Put(f, p, DirEntry)]
                                         ELSE [ok |-> FALSE, fs |-> f]

\* the directory is reported and entered, but never made
MkdirNothing(f, p) == [ok |-> TRUE, fs |-> f]

\* path.mkdir(parents=True, exist_ok=True): nothing to do at a directory,
\* FileExistsError at a file; missing ancestors are made first.
RECURSIVE Mkdir(_, _)
Mkdir(f, p) ==
    IF Exists(f, p) THEN [ok |-> IsDir(f, p), fs |-> f]
    ELSE IF Exists(f, Parent(p))
         THEN IF CanCreate(f, p) THEN [ok |-> TRUE, fs |-> Put(f, p, DirEntry)]
                                 ELSE [ok |-> FALSE, fs |-> f]
         ELSE LET up == Mkdir(f, Parent(p))
              IN  IF up.ok THEN [ok |-> TRUE, fs |-> Put(up.fs, p, DirEntry)]
                           ELSE up

\* open(path, 'a'): the text is added to what the file holds
WriteFileAppend(f, p, s) ==
    IF IsFile(f, p)
    THEN [ok |-> TRUE, fs |-> Put(f, p, FileEntry(f[p].content \o s))]
    ELSE IF ~Exists(f, p) /\ CanCreate(f, p)
         THEN [ok |-> TRUE, fs |-> Put(f, p, FileEntry(s))]
         ELSE [ok |-> FALSE, fs |-> f]

\* the file that is overwritten is first copied to a backup beside it
WriteFileBackup(f, p, s) ==
    IF IsFile(f, p)
    THEN [ok |-> TRUE, fs |-> Put(Put(f, Append(Parent(p), "bak"), f[p]), p, FileEntry(s))]
    ELSE IF ~Exists(f, p) /\ CanCreate(f, p)
         THEN [ok |-> TRUE, fs |-> Put(f, p, FileEntry(s))]
         ELSE [ok |-> FALSE, fs |-> f]

\* with open(path, 'w') as f: f.write(s): the file is created or truncated
\* and holds s; it fails at a directory and where no entry can be made.
WriteFile(f, p, s) ==
    IF IsFile(f, p)
    THEN [ok |-> TRUE, fs |-> Put(f, p, FileEntry(s))]
    ELSE IF ~Exists(f, p) /\ CanCreate(f, p)
         THEN [ok |-> TRUE, fs |-> Put(f, p, FileEntry(s))]
         ELSE [ok |-> FALSE, fs |-> f]

\* path.touch(): an existing entry is left as it is, a missing one becomes
\* an empty file.
Touch(f, p) ==
    IF Exists(f, p) THEN [ok |-> TRUE, fs |-> f]
    ELSE IF CanCreate(f, p) THEN [ok |-> TRUE, fs |-> Put(f, p, FileEntry(""))]
                            ELSE [ok |-> FALSE, fs |-> f]

\* Path(base_dir): "." is the current directory
PathOf(dir) == IF dir = "." THEN <<>> ELSE <<dir>>

----------------------------------------------------------------------------
\* Inputs

\* The entries the current directory can hold before the program starts:
\* at most MaxPre of them, each a directory or a file.
PrePaths == {<<n>> : n \in Names}
PreEntries == {DirEntry, FileEntry("old")}
InitialFilesystems ==
    {f \in UNION {[S \cup {<<>>} -> PreEntries] : S \in {T \in SUBSET PrePaths : Cardinality(T) <= MaxPre}} :
        f[<<>>] = DirEntry}

\* A file that may hold JSON text: doc is <<v>> when the text is the JSON
\* document v, and <<>> when it is not JSON.
JsonFile(v) == [exists |-> TRUE, doc |-> <<v>>]
Malformed == [exists |-> TRUE, doc |-> <<>>]
Absent == [exists |-> FALSE, doc |-> <<>>]
JsonFileNames == {"s.json", "bad.json"}

\* argparse's namespace: an option that was not given is <<>> (None)
Args == [gui : BOOLEAN, json : {<<>>, <<"">>, <<"s.json">>, <<"bad.json">>, <<"no.json">>},
         output : {".", "a"}]
NoArgs == [gui |-> FALSE, json |-> <<>>, output |-> "."]

\* Python's truth value of an optional string
Truthy(opt) == opt # <<>> /\ opt[1] # ""

----------------------------------------------------------------------------
\* State

VARIABLES
    pc,                 \* where the process is: main, designer, gui, generate, cli, create, usage, exit, fatal
    args,               \* the parsed command line
    jsonFiles,          \* the JSON files on disk, by name
    fs,                 \* the filesystem the materializer writes to
    project_structure,  \* ProjectDesigner.project_structure
    tree,               \* the rows of the editor's Treeview, in order
    messagebox,         \* the modal message the last handler showed
    status,             \* the text of the status bar
    call,               \* the running or last create_structure call
    stdout,             \* what the current call has printed
    fs0,                \* the filesystem when the current call began
    again               \* the current call repeats the one before, which succeeded

vars == <<pc, args, jsonFiles, fs, project_structure, tree, messagebox, status,
          call, stdout, fs0, again>>

editor == <<project_structure, tree, messagebox, status>>
materializer == <<fs, call, stdout, fs0, again>>

NoMessage == <<"", "">>
LoadError == <<"Error", "Failed to load JSON">>
CreateError == <<"Error", "Failed to create project">>
Success == <<"Success", "Project generated at">>
NoCall == [status |-> "idle", base |-> <<>>, structure |-> Null, stack |-> <<>>, touch |-> FALSE]

----------------------------------------------------------------------------
\* ProjectDesigner: the tree view

\* _add_tree_node: one row per key, a folder row for a dict value (followed
\* by the rows of its members) and a file row for any other value.
RECURSIVE AddTreeNode(_, _)
AddTreeNode(parent, structure) ==
    IF IsDict(structure) /\ structure.items # <<>>
    THEN LET name == Head(structure.items)[1]
             content == Head(structure.items)[2]
             rest == AddTreeNode(parent, Dict(Tail(structure.items)))
         IN  IF IsDict(content)
             THEN <<[path |-> parent \o name, icon |-> "folder"]>>
                      \o AddTreeNode(parent \o name, content) \o rest
             ELSE <<[path |-> parent \o name, icon |-> "file"]>> \o rest
    ELSE <<>>

\* update_tree_view: every row is deleted and the tree is drawn again
UpdateTreeView(structure) == AddTreeNode(<<>>, structure)

----------------------------------------------------------------------------
\* ProjectGenerator.create_structure

\* _create(base, content) is entered: a dict is iterated, None does nothing
Enter(base, content) ==
    IF IsDict(content) THEN <<[base |-> base, todo |-> content.items]>> ELSE <<>>

\* a frame whose loop has ended returns to its caller
RECURSIVE Unwind(_)
Unwind(stack) ==
    IF stack # <<>> /\ Head(stack).todo = <<>> THEN Unwind(Tail(stack)) ELSE stack

\* create_structure(base_dir, structure) is called
CreateStructure(dir, structure) ==
    /\ call' = [status |-> "running", base |-> PathOf(dir), structure |-> structure,
                stack |-> Unwind(Enter(PathOf(dir), structure)),
                touch |-> ~IsDict(structure) /\ ~IsNone(structure)]
    /\ stdout' = <<>>
    /\ fs0' = fs
    /\ again' = (call.status = "ok" /\ call.base = PathOf(dir) /\ call.structure = structure)
    /\ fs' = fs

\* the loop of the innermost frame moves to its next member, after the
\* frames in `entered` have been pushed
Advance(entered) ==
    [call EXCEPT !.stack = Unwind(entered \o <<[Head(call.stack) EXCEPT !.todo = Tail(@)]>>
                                      \o Tail(call.stack))]

\* the exception is swallowed and the loop goes on with the next member
RaisedResume == IF call.stack = <<>> THEN [call EXCEPT !.touch = FALSE] ELSE Advance(<<>>)

\* an exception leaves _create and create_structure
Raised == [call EXCEPT !.status = "failed", !.stack = <<>>, !.touch = FALSE]

NextName == Head(Head(call.stack).todo)[1]
NextContent == Head(Head(call.stack).todo)[2]
NextPath == Head(call.stack).base \o NextName

\* lines 26-29: a dict or None member becomes a directory, and is entered
CreateDirectory ==
    /\ call.status = "running" /\ call.stack # <<>>
    /\ IsDict(NextContent) \/ IsNone(NextContent)
    /\ LET made == Mkdir(fs, NextPath)
       IN  /\ fs' = made.fs
           /\ IF made.ok
              THEN /\ call' = Advance(Enter(NextPath, NextContent))
                   /\ stdout' = Append(stdout, <<"Created directory", NextPath>>)
              ELSE /\ call' = Raised
                   /\ stdout' = stdout
    /\ UNCHANGED <<pc, args, jsonFiles, editor, fs0, again>>

\* lines 30-33: any other member becomes a file holding its text
CreateFile ==
    /\ call.status = "running" /\ call.stack # <<>>
    /\ ~(IsDict(NextContent) \/ IsNone(NextContent))
    /\ LET written == WriteFile(fs, NextPath, PyStr(NextContent))
       IN  /\ fs' = written.fs
           /\ IF written.ok
              THEN /\ call' = Advance(<<>>)
                   /\ stdout' = Append(stdout, <<"Created file", NextPath>>)
              ELSE /\ call' = Raised
                   /\ stdout' = stdout
    /\ UNCHANGED <<pc, args, jsonFiles, editor, fs0, again>>

\* lines 34-37: a root that is neither a dict nor None names a file to
\* touch; base / content is a TypeError unless content is a string
CreateRootFile ==
    /\ call.status = "running" /\ call.touch
    /\ LET touched == IF call.structure.kind = "str"
                      THEN Touch(fs, Append(call.base, call.structure.val))
                      ELSE [ok |-> FALSE, fs |-> fs]
       IN  /\ fs' = touched.fs
           /\ IF touched.ok
              THEN /\ call' = [call EXCEPT !.touch = FALSE]
                   /\ stdout' = Append(stdout, <<"Created file", Append(call.base, call.structure.val)>>)
              ELSE /\ call' = Raised
                   /\ stdout' = stdout
    /\ UNCHANGED <<pc, args, jsonFiles, editor, fs0, again>>

\* lines 39-40: _create has returned
CreateReturn ==
    /\ call.status = "running" /\ call.stack = <<>> /\ ~call.touch
    /\ call' = [call EXCEPT !.status = "ok"]
    /\ stdout' = Append(stdout, <<"Project structure created successfully at", call.base>>)
    /\ UNCHANGED <<pc, args, jsonFiles, editor, fs, fs0, again>>

----------------------------------------------------------------------------
\* ProjectGenerator.create_from_json

\* with open(json_path) as f: json.load(f)
JsonLoad(file) ==
    IF file.exists /\ file.doc # <<>> THEN [ok |-> TRUE, value |-> file.doc[1]]
                                      ELSE [ok |-> FALSE, value |-> Null]

\* json.dump(structure, f, indent=4) into a file opened with 'w'
JsonDump(structure) == JsonFile(structure)

FileAt(name) == IF name \in DOMAIN jsonFiles THEN jsonFiles[name] ELSE Absent

\* lines 13-15: the file is read and parsed, then materialized; a failure
\* to read or parse it ends the process
CreateFromJson ==
    /\ pc = "cli"
    /\ LET loaded == JsonLoad(FileAt(args.json[1]))
       IN  IF loaded.ok
           THEN /\ CreateStructure(args.output, loaded.value)
                /\ pc' = "create"
           ELSE /\ pc' = "fatal"
                /\ UNCHANGED materializer
    /\ UNCHANGED <<args, jsonFiles, editor>>

\* create_structure has returned to create_from_json, or raised through it
CreateFromJsonEnd ==
    /\ pc = "create" /\ call.status \in {"ok", "failed"}
    /\ pc' = IF call.status = "ok" THEN "exit" ELSE "fatal"
    /\ UNCHANGED <<args, jsonFiles, editor, materializer>>

----------------------------------------------------------------------------
\* ProjectDesigner: the handlers of the three buttons

\* lines 86-95: Load JSON
\* the structure is reset before the file is parsed
LoadJsonFromResetting(file_path) ==
    /\ pc = "gui"
    /\ IF file_path = ""
       THEN /\ messagebox' = NoMessage
            /\ UNCHANGED <<project_structure, tree, status>>
       ELSE LET loaded == JsonLoad(FileAt(file_path))
            IN  IF loaded.ok
                THEN /\ project_structure' = loaded.value
                     /\ tree' = UpdateTreeView(loaded.value)
                     /\ status' = <<"Loaded structure from", file_path>>
                     /\ messagebox' = NoMessage
                ELSE /\ messagebox' = LoadError
                     /\ project_structure' = Dict(<<>>)
                     /\ UNCHANGED <<tree, status>>
    /\ UNCHANGED <<pc, args, jsonFiles, materializer>>

LoadJsonFrom(file_path) ==
    /\ pc = "gui"
    /\ IF file_path = ""
       THEN /\ messagebox' = NoMessage
            /\ UNCHANGED <<project_structure, tree, status>>
       ELSE LET loaded == JsonLoad(FileAt(file_path))
            IN  IF loaded.ok
                THEN /\ project_structure' = loaded.value
                     /\ tree' = UpdateTreeView(loaded.value)
                     /\ status' = <<"Loaded structure from", file_path>>
                     /\ messagebox' = NoMessage
                ELSE /\ messagebox' = LoadError
                     /\ UNCHANGED <<project_structure, tree, status>>
    /\ UNCHANGED <<pc, args, jsonFiles, materializer>>

\* askopenfilename: "" when the dialog is cancelled
OpenChoices == {"", "s.json", "bad.json", "no.json"}

LoadJson == \E file_path \in OpenChoices : LoadJsonFrom(file_path)

\* lines 97-105: Save JSON
SaveJson ==
    /\ pc = "gui"
    /\ \E file_path \in {"", "s.json"} :
          IF file_path = ""
          THEN UNCHANGED <<jsonFiles, status>>
          ELSE /\ jsonFiles' = [jsonFiles EXCEPT ![file_path] = JsonDump(project_structure)]
               /\ status' = <<"Structure saved to", file_path>>
    /\ messagebox' = NoMessage
    /\ UNCHANGED <<pc, args, project_structure, tree, materializer>>

\* lines 107-111: Generate Project asks for a directory and materializes
\* the structure there; nothing happens when the dialog is cancelled
GenerateProject ==
    /\ pc = "gui"
    /\ \E target_dir \in {"", "."} :
          IF target_dir = ""
          THEN UNCHANGED <<pc, materializer>>
          ELSE /\ CreateStructure(target_dir, project_structure)
               /\ pc' = "generate"
    /\ messagebox' = NoMessage
    /\ UNCHANGED <<args, jsonFiles, project_structure, tree, status>>

\* the structure is cleared once it has been generated
GenerateProjectEndClearing ==
    /\ pc = "generate" /\ call.status \in {"ok", "failed"}
    /\ IF call.status = "ok"
       THEN /\ messagebox' = Success
            /\ status' = <<"Project created at", call.base>>
            /\ project_structure' = Dict(<<>>)
       ELSE /\ messagebox' = CreateError
            /\ status' = status
            /\ project_structure' = project_structure
    /\ pc' = "gui"
    /\ stdout' = <<>> /\ fs0' = fs /\ again' = FALSE
    /\ UNCHANGED <<args, jsonFiles, tree, fs, call>>

\* lines 112-115: the outcome is shown
GenerateProjectEnd ==
    /\ pc = "generate" /\ call.status \in {"ok", "failed"}
    /\ IF call.status = "ok"
       THEN /\ messagebox' = Success
            /\ status' = <<"Project created at", call.base>>
       ELSE /\ messagebox' = CreateError
            /\ status' = status
    /\ pc' = "gui"
    /\ stdout' = <<>> /\ fs0' = fs /\ again' = FALSE
    /\ UNCHANGED <<args, jsonFiles, project_structure, tree, fs, call>>

----------------------------------------------------------------------------
\* main

\* lines 200-203: --gui builds the editor, which loads the sample structure
MainGui ==
    /\ pc = "main"
    /\ \E a \in Args :
          /\ a.gui
          /\ args' = a
    /\ pc' = "designer"
    /\ UNCHANGED <<jsonFiles, editor, materializer>>

\* lines 43-52 and 130-189: the editor is built and shows the sample
\* structure; main reads the command line no more
ProjectDesignerInit ==
    /\ pc = "designer"
    /\ pc' = "gui"
    /\ args' = NoArgs
    /\ project_structure' = SampleStructure
    /\ tree' = UpdateTreeView(SampleStructure)
    /\ status' = <<"Loaded sample book_recommender structure", "">>
    /\ UNCHANGED <<jsonFiles, messagebox, materializer>>

\* lines 204-205: --json without --gui
MainJson ==
    /\ pc = "main"
    /\ \E a \in Args :
          /\ ~a.gui /\ Truthy(a.json)
          /\ args' = a
    /\ pc' = "cli"
    /\ UNCHANGED <<jsonFiles, editor, materializer>>

\* lines 206-208: otherwise the usage is printed
MainUsage ==
    /\ pc = "main"
    /\ \E a \in Args :
          /\ ~a.gui /\ ~Truthy(a.json)
          /\ args' = a
    /\ pc' = "usage"
    /\ UNCHANGED <<jsonFiles, editor, materializer>>

----------------------------------------------------------------------------

Init ==
    /\ pc = "main"
    /\ args = NoArgs
    /\ \E d \in Documents :
          jsonFiles = [n \in JsonFileNames |->
                          IF n = "s.json" THEN JsonFile(d) ELSE Malformed]
    /\ fs \in InitialFilesystems
    /\ project_structure = Dict(<<>>)
    /\ tree = <<>>
    /\ messagebox = NoMessage
    /\ status = <<"Ready", "">>
    /\ call = NoCall
    /\ stdout = <<>>
    /\ fs0 = fs
    /\ again = FALSE

Next ==
    \/ MainGui \/ MainJson \/ MainUsage \/ ProjectDesignerInit
    \/ CreateFromJson \/ CreateFromJsonEnd
    \/ LoadJson \/ SaveJson \/ GenerateProject \/ GenerateProjectEnd
    \/ CreateDirectory \/ CreateFile \/ CreateRootFile \/ CreateReturn

Spec == Init /\ [][Next]_vars

----------------------------------------------------------------------------
\* The nodes of the structure of the current call

\* the members that _create visits below base, in the order it visits them:
\* each member, then the members of the dict it holds, then its siblings
RECURSIVE TraverseItems(_, _)
TraverseItems(base, items) ==
    IF items = <<>> THEN <<>>
    ELSE LET path == base \o Head(items)[1]
             content == Head(items)[2]
         IN  <<[path |-> path, content |-> content]>>
                 \o (IF IsDict(content) THEN TraverseItems(path, content.items) ELSE <<>>)
                 \o TraverseItems(base, Tail(items))

Traversal ==
    IF IsDict(call.structure) THEN TraverseItems(call.base, call.structure.items) ELSE <<>>

\* the path of the file a bare string root names
RootNamed == IF call.structure.kind = "str" THEN {Append(call.base, call.structure.val)} ELSE {}

IsDirectoryNode(n) == n.content.kind \in {"dict", "null"}

\* the entry of node n is on disk as the structure describes it
Made(n) ==
    IF IsDirectoryNode(n) THEN IsDir(fs, n.path)
    ELSE /\ IsFile(fs, n.path)
         /\ n.content.kind = "str" => fs[n.path].content = n.content.val
         /\ n.content.kind = "num" => fs[n.path].content = ToString(n.content.num)

\* path p is as it was when the call began
Untouched(p) == IF p \in DOMAIN fs0 THEN p \in DOMAIN fs /\ fs[p] = fs0[p] ELSE p \notin DOMAIN fs

Under(f, base) == {p \in DOMAIN f : IsPrefix(base, p) /\ p # base}

\* a create_structure call is running or has just ended
InCall == pc \in {"generate", "create"}

Printed == {stdout[i] : i \in 1..Len(stdout)}

----------------------------------------------------------------------------
\* Claims

EmptyBase == IsDir(fs0, call.base) /\ Under(fs0, call.base) = {}

\* C1: when create_structure returns without error for a nested mapping
\* whose keys are plain names, on an existing empty base directory, the
\* entries under the base are exactly
\* the nodes of the structure, one per node at the path of its keys: a
\* directory for a mapping or null child, a file holding the string for a
\* string child, and nothing else.
C1_ExactTree ==
    InCall /\ call.status = "ok" /\ IsDict(call.structure) /\ PlainKeys(call.structure)
           /\ EmptyBase
        => LET t == Traversal
               named == {t[i].path : i \in 1..Len(t)}
           IN  /\ Under(fs, call.base) = named
               /\ Cardinality(named) = Len(t)
               /\ \A i \in 1..Len(t) : Made(t[i])
               /\ \A i \in 1..Len(t) :
                     t[i].content \in {Null, Dict(<<>>)} => Under(fs, t[i].path) = {}

C1_Witness ==
    /\ InCall /\ call.status = "ok" /\ IsDict(call.structure) /\ PlainKeys(call.structure)
    /\ EmptyBase
    /\ LET t == Traversal
       IN  \E i \in 1..Len(t) :
              t[i].content.kind = "str" /\ Len(t[i].path) >= Len(call.base) + 2

\* C2: a second run with the same structure and base as a first run that
\* succeeded also succeeds, and leaves every entry, kind and content as
\* the first run left it.
C2_Idempotent ==
    InCall /\ again /\ call.status \in {"ok", "failed"}
        => call.status = "ok" /\ fs = fs0

C2_Witness ==
    /\ InCall /\ again /\ call.status = "ok"
    /\ LET t == Traversal
       IN  /\ \E i \in 1..Len(t) : IsDirectoryNode(t[i])
           /\ \E i \in 1..Len(t) : t[i].content.kind = "str"

\* C3: create_structure deletes nothing and changes the kind of nothing;
\* an entry that existed before the call at a path the structure does not
\* name is as it was; new entries are only at named paths, at the base and
\* at the missing directories above them; and after a successful call a
\* file that existed at the path of a string child holds exactly that
\* string.
C3_Frame ==
    InCall =>
        LET t == Traversal
            named == {t[i].path : i \in 1..Len(t)} \cup RootNamed
        IN  /\ \A p \in DOMAIN fs0 :
                  /\ p \in DOMAIN fs /\ fs[p].kind = fs0[p].kind
                  /\ p \notin named => fs[p] = fs0[p]
            /\ \A p \in DOMAIN fs \ DOMAIN fs0 :
                  \E q \in named \cup {call.base} : IsPrefix(p, q)
            /\ call.status = "ok" =>
                  \A i \in 1..Len(t) :
                      t[i].content.kind = "str" /\ IsFile(fs0, t[i].path)
                          => fs[t[i].path].content = t[i].content.val

C3_Witness ==
    /\ InCall /\ call.status = "ok"
    /\ LET t == Traversal
       IN  \E i \in 1..Len(t) :
              /\ t[i].content.kind = "str"
              /\ IsFile(fs0, t[i].path)
              /\ fs0[t[i].path].content # t[i].content.val

\* C4: a Load whose file cannot be read or parsed shows the error and
\* leaves project_structure as it was; in the editor project_structure
\* changes only in a Load that parses, and becomes the parsed document.
C4_LoadKeepsStructure ==
    [][/\ \A f \in OpenChoices \ {""} :
             LoadJsonFrom(f) /\ ~JsonLoad(FileAt(f)).ok
                 => messagebox' = LoadError /\ project_structure' = project_structure
       /\ pc = "gui" /\ project_structure' # project_structure
             => \E f \in OpenChoices \ {""} :
                   /\ JsonLoad(FileAt(f)).ok
                   /\ project_structure' = JsonLoad(FileAt(f)).value
                   /\ messagebox' # LoadError]_vars

C4_Witness ==
    pc = "gui" /\ messagebox = LoadError /\ project_structure # SampleStructure

\* C5: no step of a Generate (started, cancelled, running, succeeded or
\* failed) and no Save changes project_structure.
C5_GenerateKeepsStructure ==
    [][GenerateProject \/ GenerateProjectEnd \/ SaveJson
           \/ CreateDirectory \/ CreateFile \/ CreateRootFile \/ CreateReturn
       => project_structure' = project_structure]_vars

C5_Witness ==
    /\ pc = "gui" /\ messagebox = CreateError
    /\ project_structure = call.structure /\ project_structure # SampleStructure

\* C6: a failing filesystem operation ends the traversal there and reaches
\* the caller: what the earlier steps made is in place, no later node is
\* made or written, nothing runs after the failure, and success is reported
\* only when every node was made.
C6_FailureStops ==
    /\ InCall /\ call.status = "failed" /\ IsDict(call.structure) =>
          LET t == Traversal
          IN  /\ Len(stdout) < Len(t)
              /\ \A i \in 1..Len(stdout) : Made(t[i])
              /\ \A i \in (Len(stdout) + 1)..Len(t) : Untouched(t[i].path)
    /\ call.status = "failed" => call.stack = <<>> /\ ~call.touch
    /\ InCall /\ call.status = "ok" => LET t == Traversal IN \A i \in 1..Len(t) : Made(t[i])
    /\ pc = "exit" => call.status = "ok"
    /\ messagebox = Success => call.status = "ok"

C6_Witness ==
    InCall /\ call.status = "failed" /\ Len(stdout) >= 1

\* the node at which the current call failed
FailedNode == Traversal[Len(stdout) + 1]

\* the current call failed making the directory of a mapping or null child
FailedAtDirectory ==
    /\ InCall /\ call.status = "failed" /\ IsDict(call.structure)
    /\ IsDirectoryNode(FailedNode)

\* C7 as stated: making the directory of a mapping or null child succeeds
\* whenever its path exists before the call.
C7_SucceedsIfExists ==
    FailedAtDirectory => ~Exists(fs0, FailedNode.path)

\* C7 as amended: making the directory of a mapping or null child succeeds
\* whenever its path is a directory before the call, and the traversal then
\* recurses into the child with that path, now a directory, as its base.
C7_SucceedsIfDirectory ==
    /\ FailedAtDirectory => ~IsDir(fs0, FailedNode.path)
    /\ LET printed == Printed
       IN  \A j \in 1..(Len(call.stack) - 1) :
              /\ IsDir(fs, call.stack[j].base)
              /\ IsPrefix(call.stack[j + 1].base, call.stack[j].base)
              /\ call.stack[j + 1].base # call.stack[j].base
              /\ <<"Created directory", call.stack[j].base>> \in printed

C7_Witness ==
    /\ call.status = "running" /\ Len(call.stack) >= 2
    /\ IsDir(fs0, Head(call.stack).base)

\* C8: --gui launches the editor whatever else is given; --json without
\* --gui runs create_from_json; with neither, usage is printed and nothing
\* on disk is made or changed.
C8_Dispatch ==
    pc \in {"designer", "cli", "create", "exit", "fatal", "usage"} =>
        /\ args.gui => pc = "designer"
        /\ ~args.gui /\ args.json # <<>> => pc \in {"cli", "create", "exit", "fatal"}
        /\ ~args.gui /\ args.json = <<>> => pc = "usage" /\ call = NoCall /\ fs = fs0

\* the directory of every step exists when the step is attempted, and
\* each entry below the base is made after the directory that holds it
ParentFirst ==
    /\ call.status = "running" /\ call.stack # <<>> => IsDir(fs, Parent(NextPath))
    /\ \A i \in 1..Len(stdout) :
          stdout[i][1] \in {"Created directory", "Created file"}
              => \/ Parent(stdout[i][2]) = call.base
                 \/ \E j \in 1..(i - 1) : stdout[j] = <<"Created directory", Parent(stdout[i][2])>>

\* C9 as stated: on an existing base directory no mkdir and no file write
\* is attempted at a path whose parent directory does not exist yet, and
\* each entry below the base is made after the directory that holds it.
C9_ParentFirst ==
    InCall /\ IsDir(fs0, call.base) => ParentFirst

\* C9 as amended: the same, for a structure whose keys are plain names.
C9_ParentFirstPlainKeys ==
    InCall /\ IsDir(fs0, call.base) /\ PlainKeys(call.structure) => ParentFirst

C9_Witness ==
    /\ call.status = "running" /\ Len(call.stack) >= 2
    /\ IsDir(fs0, call.base) /\ PlainKeys(call.structure)
    /\ ~Exists(fs0, Head(call.stack).base)

\* C10: after a Generate that succeeded, every row of the tree view is a
\* folder row exactly when its path is a directory on disk and a file row
\* exactly when its path is a file.
C10_ViewAgrees ==
    pc = "generate" /\ call.status = "ok" =>
        \A i \in 1..Len(tree) :
            /\ tree[i].icon = "folder" <=> IsDir(fs, call.base \o tree[i].path)
            /\ tree[i].icon = "file" <=> IsFile(fs, call.base \o tree[i].path)

====
